---------------------------- MODULE Spec2Model ----------------------------
(***************************************************************************)
(* A model of the per-frame reframing and captioning pipeline of           *)
(* ai-podcast-clip-generator:                                              *)
(*   - VerticalVideoClipper (src/vertical_video_clipper.py): the smoothed  *)
(*     crop position, the zoom state machine and the crop rectangle;       *)
(*   - SubtitleProcessor (src/vertical_video_subtitle.py): parse_srt,      *)
(*     _add_word_timings_to_subtitles, _get_active_subtitle, _wrap_text,   *)
(*     and the batch driver process_videos with its frame pass, its video  *)
(*     handles and its files;                                              *)
(*   - SubtitleGenerator (src/subtitle_generator.py): _refine_segments.     *)
(*                                                                         *)
(* Numbers.  Python floats are modelled by exact integers:                 *)
(*   - zoom_factor is kept in units of 1/ZoomUnit, and the random zoom     *)
(*     deltas and durations are drawn from values whose quotient is a      *)
(*     whole number of units, so zoom_factor += zoom_step is exact;        *)
(*   - times are whole numbers of ticks;                                   *)
(*   - int(x) of a non-negative x is the floor, computed with \div.        *)
(***************************************************************************)
EXTENDS Integers, Sequences, FiniteSets, TLC

VARIABLES
    \* ---- VerticalVideoClipper fields (vertical_video_clipper.py:13-79)
    input_width, input_height,      \* source frame size
    crop_width, crop_height,        \* un-zoomed crop window size
    last_crop_x, last_crop_y,       \* smoothed crop position
    zoom_state, zoom_factor, zoom_duration, zoom_step, frames_since_last_zoom,
    \* ---- locals of VerticalVideoClipper.process
    target_x, target_y,             \* crop target
    smoothing_factor,               \* in percent (0.05 is 5)
    person_center,                  \* detection of the last frame, or None
    crop,                           \* rectangle used to slice the last frame
    zoomed,                         \* rectangle apply_zoom_effect returned
    \* ---- SubtitleProcessor: arguments and results of the pure methods
    subtitles,                      \* list of SubtitleEntry
    current_time,                   \* argument of _get_active_subtitle
    active_subtitle,                \* its result: an index into subtitles, or 0
    word_data,                      \* word_data['words']
    text_words, max_width, max_lines,   \* arguments of _wrap_text
    lines,                          \* lines of _wrap_text's result
    srt_lines,                      \* the lines of an SRT file
    \* ---- SubtitleProcessor fields (vertical_video_subtitle.py:27-50)
    highlight_style, animation_style, animation_oscillator,
    \* ---- process_videos and the calls below it
    videos,                         \* video_files: the batch, in order
    video_index,                    \* how many videos the loop has taken
    attempted,                      \* the videos add_subtitles_to_video got
    fps, frame_count,               \* locals of the frame pass
    frames_left,                    \* frames cap.read() will still deliver
    rendered,                       \* what the last frame had drawn on it
    open_handles,                   \* handles opened and not yet released
    temp_files, output_files,       \* per video: the file at each path
    ffmpeg_result,                  \* per video: how subprocess.run ended
    log,                            \* per video: the messages printed
    calls,                          \* the calls the frame pass has completed
    \* ---- SubtitleGenerator (subtitle_generator.py:11-22, 130-179)
    max_words_per_subtitle,
    segments,                       \* result["segments"]
    refined_segments,               \* what _refine_segments returns
    pc                              \* which operation has run

clipper_vars == <<input_width, input_height, crop_width, crop_height,
                  last_crop_x, last_crop_y, zoom_state, zoom_factor,
                  zoom_duration, zoom_step, frames_since_last_zoom,
                  target_x, target_y, smoothing_factor, person_center,
                  crop, zoomed>>

subtitle_vars == <<subtitles, current_time, active_subtitle, word_data,
                   text_words, max_width, max_lines, lines, srt_lines>>

video_vars == <<highlight_style, animation_style, animation_oscillator,
                videos, video_index, attempted, fps, frame_count,
                frames_left, rendered, open_handles, temp_files,
                output_files, ffmpeg_result, log, calls>>

generator_vars == <<max_words_per_subtitle, segments, refined_segments>>

vars == <<clipper_vars, subtitle_vars, video_vars, generator_vars, pc>>

\* Python's None, where the other values are tuples.
None == <<>>

Min(a, b) == IF a <= b THEN a ELSE b

Max(a, b) == IF a >= b THEN a ELSE b

(***************************************************************************)
(*                       VerticalVideoClipper                              *)
(***************************************************************************)

\* Default output size (width: int = 1080, height: int = 1920).
output_width == 1080

output_height == 1920

\* zoom_factor 1.0 in model units.  105000 makes delta / duration a whole
\* number of units for every delta and duration the model draws.
ZoomUnit == 105000

min_zoom == ZoomUnit

max_zoom == (ZoomUnit * 11) \div 10

\* random.randint(120, 300): the dwell threshold drawn on every neutral frame.
ZoomWaitMin == 120

ZoomWaitMax == 300

\* random.randint(150, 210): the duration of a zoom.
ZoomDurMin == 150

ZoomDurMax == 210

\* frames_since_last_zoom > random.randint(120, 300) can be true exactly when
\* it is true for 120 and false exactly when it is false for 300, so the two
\* ends of the range give every outcome of the comparison.
ThresholdSet == {ZoomWaitMin, ZoomWaitMax}

DurationSet == {ZoomDurMin, ZoomDurMax}

DirectionSet == {"zooming_in", "zooming_out"}

\* random.uniform(0.05, 0.08) for zooming in, random.uniform(0.03, 0.05) for
\* zooming out, in zoom units: the largest delta of each range, the one that
\* takes zoom_factor to its bounds soonest.
DeltaSet(dir) ==
    IF dir = "zooming_in"
    THEN {(ZoomUnit * 8) \div 100}
    ELSE {(ZoomUnit * 5) \div 100}

\* smoothing_factor = 0.05, in percent.
SmoothingFactor == 5

\* The source sizes the model runs on: a landscape source, where the crop
\* window slides horizontally, and a narrow source, where crop_width is cut
\* down to input_width and the window slides vertically.
SourceSizes == {<<42, 32>>, <<18, 36>>}

\* Mutant of InitCropWidth: the width is not cut down to the source's.
InitCropWidthUncut(w, h) == (h * output_width) \div output_height

\* __init__: crop dimensions for the 9:16 output.
InitCropWidth(w, h) ==
    LET cw == (h * output_width) \div output_height
    IN  IF cw > w THEN w ELSE cw

InitCropHeight(w, h) ==
    LET cw == (h * output_width) \div output_height
    IN  IF cw > w THEN (w * output_height) \div output_width ELSE h

\* detect_person: None, or the centroid of the visible landmarks.  Landmark
\* coordinates are not confined to the frame, so the centroid may lie beyond
\* an edge.
Detections ==
    {None, <<-1, -1>>, <<input_width + 1, input_height + 1>>}

\* The pairs <<last, target>> for which the IEEE-754 double value of
\*     last * (1 - 0.05) + target * 0.05
\* is just below the exact (whole) value, so that int() gives one less.
\* Computed with Python for all pairs in 0..40.
FloatShortfall ==
    {<<3, 3>>, <<6, 6>>, <<6, 26>>, <<7, 7>>, <<9, 9>>, <<12, 12>>,
     <<12, 32>>, <<14, 14>>, <<18, 18>>, <<18, 38>>, <<23, 3>>, <<23, 23>>,
     <<24, 4>>, <<24, 24>>, <<28, 8>>, <<28, 28>>, <<29, 9>>, <<29, 29>>,
     <<33, 13>>, <<36, 16>>, <<36, 36>>}

\* Mutant of SmoothPos: the weights of position and target swapped.
SmoothPosSwapped(last, target, pct) ==
    (last * pct + target * (100 - pct)) \div 100

\* int(last * (1 - smoothing_factor) + target * smoothing_factor)
SmoothPos(last, target, pct) ==
    LET exact == (last * (100 - pct) + target * pct) \div 100
    IN  IF pct = SmoothingFactor /\ <<last, target>> \in FloatShortfall
        THEN exact - 1
        ELSE exact

\* Mutant of TargetFor: the target falls back to 0 when nothing is detected.
TargetForReset(p, i, old, crop_size, max_pos) ==
    IF p = None
    THEN 0
    ELSE Max(0, Min(max_pos, p[i] - crop_size \div 2))

\* target = max(0, min(max, center - crop_size // 2)) when a person is
\* detected at p (coordinate i); otherwise the target keeps its value.
TargetFor(p, i, old, crop_size, max_pos) ==
    IF p = None
    THEN old
    ELSE Max(0, Min(max_pos, p[i] - crop_size \div 2))

\* Mutant of ZoomUpdate: a zoom runs for its whole duration; the tests
\* against max_zoom and min_zoom and the clamps are missing.
ZoomUpdateNoClamp(z, r, dir, dur, delta) ==
    IF z.state = "neutral"
    THEN IF z.since + 1 > r
         THEN [state |-> dir, factor |-> z.factor, duration |-> dur,
               step |-> IF dir = "zooming_in" THEN delta \div dur
                        ELSE -(delta \div dur),
               since |-> 0]
         ELSE [z EXCEPT !.since = z.since + 1]
    ELSE IF z.duration - 1 <= 0
         THEN [z EXCEPT !.state = "neutral", !.factor = z.factor + z.step,
                        !.duration = z.duration - 1, !.since = 0]
         ELSE [z EXCEPT !.factor = z.factor + z.step,
                        !.duration = z.duration - 1]

\* Mutant of ZoomUpdate: a zoom starts when the counter reaches the
\* threshold.
ZoomUpdateAtThreshold(z, r, dir, dur, delta) ==
    IF z.state = "neutral"
    THEN IF z.since + 1 >= r
         THEN [state |-> dir, factor |-> z.factor, duration |-> dur,
               step |-> IF dir = "zooming_in" THEN delta \div dur
                        ELSE -(delta \div dur),
               since |-> 0]
         ELSE [z EXCEPT !.since = z.since + 1]
    ELSE LET f == z.factor + z.step
             d == z.duration - 1
             hit == IF z.state = "zooming_in" THEN f >= max_zoom
                    ELSE f <= min_zoom
         IN  IF d <= 0 \/ hit
             THEN [z EXCEPT !.state = "neutral",
                            !.factor = Max(min_zoom, Min(f, max_zoom)),
                            !.duration = d, !.since = 0]
             ELSE [z EXCEPT !.factor = f, !.duration = d]

\* Mutant of ZoomUpdate: a zoom ends one call after its duration has run
\* out.
ZoomUpdateLateExpiry(z, r, dir, dur, delta) ==
    IF z.state = "neutral"
    THEN IF z.since + 1 > r
         THEN [state |-> dir, factor |-> z.factor, duration |-> dur,
               step |-> IF dir = "zooming_in" THEN delta \div dur
                        ELSE -(delta \div dur),
               since |-> 0]
         ELSE [z EXCEPT !.since = z.since + 1]
    ELSE LET f == z.factor + z.step
             d == z.duration - 1
             hit == IF z.state = "zooming_in" THEN f >= max_zoom
                    ELSE f <= min_zoom
         IN  IF d < 0 \/ hit
             THEN [z EXCEPT !.state = "neutral",
                            !.factor = Max(min_zoom, Min(f, max_zoom)),
                            !.duration = d, !.since = 0]
             ELSE [z EXCEPT !.factor = f, !.duration = d]

\* Mutant of ZoomUpdate: the call that starts a zoom takes its first step.
ZoomUpdateEarlyStep(z, r, dir, dur, delta) ==
    IF z.state = "neutral"
    THEN IF z.since + 1 > r
         THEN LET step == IF dir = "zooming_in" THEN delta \div dur
                          ELSE -(delta \div dur)
              IN  [state |-> dir,
                   factor |-> Max(min_zoom, Min(z.factor + step, max_zoom)),
                   duration |-> dur, step |-> step, since |-> 0]
         ELSE [z EXCEPT !.since = z.since + 1]
    ELSE LET f == z.factor + z.step
             d == z.duration - 1
             hit == IF z.state = "zooming_in" THEN f >= max_zoom
                    ELSE f <= min_zoom
         IN  IF d <= 0 \/ hit
             THEN [z EXCEPT !.state = "neutral",
                            !.factor = Max(min_zoom, Min(f, max_zoom)),
                            !.duration = d, !.since = 0]
             ELSE [z EXCEPT !.factor = f, !.duration = d]

\* apply_zoom_effect, the state update: z is the zoom state, r the dwell
\* threshold, dir the direction, dur the duration and delta the zoom delta
\* the random source yields on this call.
ZoomUpdate(z, r, dir, dur, delta) ==
    IF z.state = "neutral"
    THEN LET since == z.since + 1
         IN  IF since > r
             THEN [state |-> dir, factor |-> z.factor, duration |-> dur,
                   step |-> IF dir = "zooming_in" THEN delta \div dur
                            ELSE -(delta \div dur),
                   since |-> 0]
             ELSE [z EXCEPT !.since = since]
    ELSE IF z.state = "zooming_in"
    THEN LET f == z.factor + z.step
             d == z.duration - 1
         IN  IF d <= 0 \/ f >= max_zoom
             THEN [z EXCEPT !.state = "neutral", !.factor = Min(f, max_zoom),
                            !.duration = d, !.since = 0]
             ELSE [z EXCEPT !.factor = f, !.duration = d]
    ELSE LET f == z.factor + z.step
             d == z.duration - 1
         IN  IF d <= 0 \/ f <= min_zoom
             THEN [z EXCEPT !.state = "neutral", !.factor = Max(f, min_zoom),
                            !.duration = d, !.since = 0]
             ELSE [z EXCEPT !.factor = f, !.duration = d]

\* Mutant of ZoomRect: the crop size is multiplied by the zoom factor.
ZoomRectMultiplied(x, y, w, h, factor) ==
    LET ah == (h * factor) \div ZoomUnit
        aw0 == (w * factor) \div ZoomUnit
        aw == IF aw0 * output_height # ah * output_width
              THEN (ah * output_width) \div output_height
              ELSE aw0
    IN  [x |-> x + (w - aw) \div 2, y |-> y + (h - ah) \div 2,
         w |-> aw, h |-> ah]

\* Mutant of ZoomRect: the rectangle is shifted up and left by the margin
\* instead of down and right.
ZoomRectOffCentre(x, y, w, h, factor) ==
    LET ah == (h * ZoomUnit) \div factor
        aw0 == (w * ZoomUnit) \div factor
        aw == IF aw0 * output_height # ah * output_width
              THEN (ah * output_width) \div output_height
              ELSE aw0
    IN  [x |-> x - (w - aw) \div 2, y |-> y - (h - ah) \div 2,
         w |-> aw, h |-> ah]

\* apply_zoom_effect, the rectangle: the crop window shrunk by the zoom
\* factor, the aspect ratio restored, centred on the un-zoomed window.
\* (// is the floor division, as \div is.)
ZoomRect(x, y, w, h, factor) ==
    LET ah == (h * ZoomUnit) \div factor
        aw0 == (w * ZoomUnit) \div factor
        aw == IF aw0 * output_height # ah * output_width
              THEN (ah * output_width) \div output_height
              ELSE aw0
    IN  [x |-> x + (w - aw) \div 2, y |-> y + (h - ah) \div 2,
         w |-> aw, h |-> ah]

\* process: "Make sure we don't go out of bounds after zoom".
ClampRect(r) ==
    LET x1 == IF r.x < 0 THEN 0 ELSE r.x
        y1 == IF r.y < 0 THEN 0 ELSE r.y
        x2 == IF x1 + r.w > input_width THEN input_width - r.w ELSE x1
        y2 == IF y1 + r.h > input_height THEN input_height - r.h ELSE y1
    IN  [x |-> x2, y |-> y2, w |-> r.w, h |-> r.h]

NoRect == [x |-> 0, y |-> 0, w |-> 0, h |-> 0]

ZoomRecord ==
    [state |-> zoom_state, factor |-> zoom_factor, duration |-> zoom_duration,
     step |-> zoom_step, since |-> frames_since_last_zoom]

\* The subtitle variables while the clipper runs.
SubtitleIdle ==
    /\ subtitles = <<>>
    /\ current_time = 0
    /\ active_subtitle = 0
    /\ word_data = <<>>
    /\ text_words = <<>>
    /\ max_width = 0
    /\ max_lines = 0
    /\ lines = <<>>
    /\ srt_lines = <<>>

\* Nothing drawn on the frame.
NoDrawing == [call |-> "none", text |-> "", words |-> <<>>]

\* The batch driver's variables while no batch runs.
VideoIdle ==
    /\ highlight_style = ""
    /\ animation_style = "bounce"
    /\ animation_oscillator = 0
    /\ videos = <<>>
    /\ video_index = 0
    /\ attempted = <<>>
    /\ fps = 0
    /\ frame_count = 0
    /\ frames_left = 0
    /\ rendered = NoDrawing
    /\ open_handles = {}
    /\ temp_files = <<>>
    /\ output_files = <<>>
    /\ ffmpeg_result = <<>>
    /\ log = <<>>
    /\ calls = <<>>

\* The generator's variables while no transcription is refined.
GeneratorIdle ==
    /\ max_words_per_subtitle = 0
    /\ segments = <<>>
    /\ refined_segments = <<>>

\* VerticalVideoClipper.__init__ followed by the first lines of process.
ClipperInit ==
    /\ \E size \in SourceSizes :
          /\ input_width = size[1]
          /\ input_height = size[2]
    /\ crop_width = InitCropWidth(input_width, input_height)
    /\ crop_height = InitCropHeight(input_width, input_height)
    /\ last_crop_x = (input_width - crop_width) \div 2
    /\ last_crop_y = (input_height - crop_height) \div 2
    /\ zoom_state = "neutral"
    /\ zoom_factor = ZoomUnit
    /\ zoom_duration = 0
    /\ zoom_step = 0
    /\ frames_since_last_zoom = 0
    /\ target_x = last_crop_x
    /\ target_y = last_crop_y
    /\ smoothing_factor = SmoothingFactor
    /\ person_center = None
    /\ crop = NoRect
    /\ zoomed = NoRect

\* The values the random source yields during one call of apply_zoom_effect:
\* none while zooming; in neutral the dwell threshold r, and, when the
\* incremented counter exceeds it, the direction, the duration and the delta.
NoDraw == [r |-> 0, dir |-> "zooming_in", dur |-> 1, delta |-> 0]

RandomDraws(z) ==
    IF z.state # "neutral"
    THEN {NoDraw}
    ELSE UNION {
           IF z.since + 1 > r
           THEN UNION {
                  {[r |-> r, dir |-> dir, dur |-> dur, delta |-> delta] :
                     dur \in DurationSet, delta \in DeltaSet(dir)} :
                  dir \in DirectionSet}
           ELSE {[NoDraw EXCEPT !.r = r]} :
           r \in ThresholdSet}

\* One iteration of the loop of process on a frame where detect_person
\* returns p: retarget, smooth, zoom, clamp, crop.
ProcessFrameOn(p) ==
    /\ \E rnd \in RandomDraws(ZoomRecord) :
          LET tx == TargetFor(p, 1, target_x, crop_width,
                              input_width - crop_width)
              ty == TargetFor(p, 2, target_y, crop_height,
                              input_height - crop_height)
              px == SmoothPos(last_crop_x, tx, SmoothingFactor)
              py == SmoothPos(last_crop_y, ty, SmoothingFactor)
              z == ZoomUpdate(ZoomRecord, rnd.r, rnd.dir, rnd.dur, rnd.delta)
              zr == ZoomRect(px, py, crop_width, crop_height, z.factor)
          IN  /\ person_center' = p
              /\ target_x' = tx
              /\ target_y' = ty
              /\ last_crop_x' = px
              /\ last_crop_y' = py
              /\ zoom_state' = z.state
              /\ zoom_factor' = z.factor
              /\ zoom_duration' = z.duration
              /\ zoom_step' = z.step
              /\ frames_since_last_zoom' = z.since
              /\ zoomed' = zr
              /\ crop' = ClampRect(zr)
    /\ smoothing_factor' = SmoothingFactor
    /\ UNCHANGED <<input_width, input_height, crop_width, crop_height>>

\* One iteration of the loop of process, whatever detect_person returns.
ProcessFrameStep == \E p \in Detections : ProcessFrameOn(p)

\* A frame of the unbounded frame loop of process.
ProcessFrame ==
    /\ pc = "process"
    /\ ProcessFrameStep
    /\ UNCHANGED <<subtitle_vars, video_vars, generator_vars, pc>>

(***************************************************************************)
(*                         SubtitleProcessor                               *)
(***************************************************************************)

\* ---- bounds of the inputs the pure methods are applied to
MaxEntries == 3         \* subtitle entries in a list (active-entry query)
MaxMergeEntries == 2    \* subtitle entries in a list (word-timing merge)
MaxTime == 2            \* times run over 0 .. MaxTime ticks
MaxWordInfos == 2       \* entries of word_data['words']
MaxTextWords == 6       \* words of a caption
MaxWidthBound == 5      \* max_width, in character cells
MaxLinesBound == 3      \* max_lines
MaxSrtLines == 9        \* lines of an SRT file
MaxPos == 12            \* positions and targets of the smoothing step
MaxTimedLines == 7      \* lines of an SRT file with two timestamp lines
MaxLenientInfos == 3    \* elements of word data with invalid elements
MaxVideos == 2          \* videos of a batch
MaxFrames == 20         \* frames of the longest video
MaxClipFrames == 3      \* frames of the video of a clipper run
MaxSegments == 2        \* segments of a transcription
MaxSegmentWords == 4    \* words of a segment
MaxTenths == 3          \* tenths of a second a segment lasts
MaxWordsCap == 2        \* max_words_per_subtitle

\* SubtitleEntry(index, start_time, end_time, text, word_timings)
SubtitleEntry(index, start_time, end_time, text) ==
    [index |-> index, start_time |-> start_time, end_time |-> end_time,
     text |-> text, word_timings |-> <<>>]

\* ------------------------------------------------- _get_active_subtitle

\* Mutant of ScanActive: the end bound is exclusive.
RECURSIVE ScanActiveExclusive(_, _, _)
ScanActiveExclusive(subs, t, i) ==
    IF i > Len(subs)
    THEN 0
    ELSE IF subs[i].start_time <= t /\ t < subs[i].end_time
         THEN i
         ELSE ScanActiveExclusive(subs, t, i + 1)

\* for subtitle in subtitles: if start_time <= current_time <= end_time:
\* return subtitle.  The result is the position of the entry returned, 0 for
\* None.
RECURSIVE ScanActive(_, _, _)
ScanActive(subs, t, i) ==
    IF i > Len(subs)
    THEN 0
    ELSE IF subs[i].start_time <= t /\ t <= subs[i].end_time
         THEN i
         ELSE ScanActive(subs, t, i + 1)

GetActiveSubtitle(subs, t) == ScanActive(subs, t, 1)

\* ---------------------------------------- _add_word_timings_to_subtitles

\* Mutant of WordOverlaps: the inclusive-boundary overlap test.
WordOverlapsInclusive(w, sub) ==
    w.start <= sub.end_time /\ w.end >= sub.start_time

\* "If word overlaps with subtitle timing, add it": the three-way test.
WordOverlaps(w, sub) ==
    \/ (w.start >= sub.start_time /\ w.start < sub.end_time)
    \/ (w.end > sub.start_time /\ w.end <= sub.end_time)
    \/ (w.start <= sub.start_time /\ w.end >= sub.end_time)

\* An element of word_data['words'] that is not an object (a string, a
\* list): word_info.get raises AttributeError on it.
NotAnObject == [junk |-> TRUE]

Raises(word_info) == "junk" \in DOMAIN word_info

\* word_info.get('start', 0), word_info.get('end', 0),
\* word_info.get('word', ''): a missing field takes its default.
WordOf(word_info) ==
    [word |-> IF "word" \in DOMAIN word_info THEN word_info.word ELSE "",
     start |-> IF "start" \in DOMAIN word_info THEN word_info.start ELSE 0,
     end |-> IF "end" \in DOMAIN word_info THEN word_info.end ELSE 0]

\* The inner loop: the words of word_data['words'] that pass the test, in
\* their order, up to the first element that raises.
RECURSIVE WordsFor(_, _, _)
WordsFor(sub, words, j) ==
    IF j > Len(words)
    THEN <<>>
    ELSE IF Raises(words[j])
         THEN <<>>
         ELSE IF WordOverlaps(WordOf(words[j]), sub)
              THEN <<WordOf(words[j])>> \o WordsFor(sub, words, j + 1)
              ELSE WordsFor(sub, words, j + 1)

\* The outer loop: every entry gets its own list.  An exception leaves the
\* loops for the handler at the end of the method: the first entry keeps
\* the words appended before it, the entries after it are not reached.
AddWordTimings(subs, words) ==
    LET raised == \E j \in 1 .. Len(words) : Raises(words[j])
    IN  [i \in 1 .. Len(subs) |->
            IF raised /\ i > 1
            THEN subs[i]
            ELSE [subs[i] EXCEPT !.word_timings = WordsFor(subs[i], words, 1)]]

\* ------------------------------------------------------------ _wrap_text

\* ' '.join(words): the words, a space between neighbours.
RECURSIVE JoinWords(_)
JoinWords(ws) ==
    IF ws = <<>>
    THEN <<>>
    ELSE IF Len(ws) = 1
         THEN ws[1]
         ELSE ws[1] \o <<" ">> \o JoinWords(Tail(ws))

\* cv2.getTextSize(text, ...)[0][0]: the text-metrics capability, here one
\* cell per character.
TextWidth(str) == Len(str)

\* The loop over the words, from word i on, with the lines built so far and
\* the current line; it ends at the end of the words or at the break.
RECURSIVE WrapLoop(_, _, _, _, _, _)
WrapLoop(words, i, lns, current_line, mw, ml) ==
    IF i > Len(words)
    THEN [lines |-> lns, current_line |-> current_line]
    ELSE LET test_line == Append(current_line, words[i])
         IN  IF TextWidth(JoinWords(test_line)) <= mw
             THEN WrapLoop(words, i + 1, lns, test_line, mw, ml)
             ELSE LET lns2 == IF current_line # <<>>
                              THEN Append(lns, JoinWords(current_line))
                              ELSE lns
                  IN  IF Len(lns2) >= ml - 1
                      THEN [lines |-> lns2, current_line |-> <<words[i]>>]
                      ELSE WrapLoop(words, i + 1, lns2, <<words[i]>>, mw, ml)

Ellipsis == <<".", ".", ".">>

\* "If we have too many lines, truncate and add ellipsis".
Truncate(lns, ml) ==
    LET kept == SubSeq(lns, 1, ml - 1)
        last_line == kept[Len(kept)]
        marked == IF Len(last_line) > 3
                  THEN SubSeq(last_line, 1, Len(last_line) - 3) \o Ellipsis
                  ELSE last_line \o Ellipsis
    IN  [kept EXCEPT ![Len(kept)] = marked]

\* Mutant of WrapText: the greedy wrap with no cap on the number of lines.
WrapTextNoCap(words, mw, ml) ==
    LET r == WrapLoop(words, 1, <<>>, <<>>, mw, Len(words) + 2)
    IN  IF r.current_line # <<>>
        THEN Append(r.lines, JoinWords(r.current_line))
        ELSE r.lines

\* _wrap_text: the lines of the text it returns ('\n'.join(lines)).
WrapText(words, mw, ml) ==
    LET r == WrapLoop(words, 1, <<>>, <<>>, mw, ml)
        lns == IF r.current_line # <<>> /\ Len(r.lines) < ml
               THEN Append(r.lines, JoinWords(r.current_line))
               ELSE r.lines
    IN  IF Len(lns) > ml THEN Truncate(lns, ml) ELSE lns

\* -------------------------------------------------------------- parse_srt

\* A line of the file: blank (only white space), an integer (int() accepts
\* it, a its value), a timestamp line (it matches the pattern, groups the
\* numbers its eight groups of digits hold) or any other text.  raw is the
\* text of the line.
NoGroups == <<0, 0, 0, 0, 0, 0, 0, 0>>

BlankLine == [kind |-> "blank", a |-> 0, groups |-> NoGroups, raw |-> ""]

IntLine(n) ==
    [kind |-> "int", a |-> n, groups |-> NoGroups, raw |-> ToString(n)]

\* \d{2} and \d{3}: the digits of a group.
Digits(n, width) ==
    IF width = 3 /\ n < 10
    THEN "00" \o ToString(n)
    ELSE IF n < 10 \/ (width = 3 /\ n < 100)
         THEN "0" \o ToString(n)
         ELSE ToString(n)

Stamp(t) ==
    Digits(t[1], 2) \o ":" \o Digits(t[2], 2) \o ":" \o Digits(t[3], 2)
        \o "," \o Digits(t[4], 3)

\* s and e are <<hours, minutes, seconds, milliseconds>>.
TimeLine(s, e) ==
    [kind |-> "time", a |-> 0, groups |-> s \o e,
     raw |-> Stamp(s) \o " --> " \o Stamp(e)]

TextLine(str) == [kind |-> "text", a |-> 0, groups |-> NoGroups, raw |-> str]

\* content.strip(): the blank lines at both ends are dropped.
RECURSIVE StripLines(_)
StripLines(ls) ==
    IF ls = <<>>
    THEN <<>>
    ELSE IF ls[1].kind = "blank"
         THEN StripLines(Tail(ls))
         ELSE IF ls[Len(ls)].kind = "blank"
              THEN StripLines(SubSeq(ls, 1, Len(ls) - 1))
              ELSE ls

\* re.split(r'\n\s*\n', ...): the entries are the runs of lines between runs
\* of blank lines.  cur is the entry being collected.
RECURSIVE SplitEntries(_, _)
SplitEntries(ls, cur) ==
    IF ls = <<>>
    THEN <<cur>>
    ELSE IF ls[1].kind = "blank"
         THEN IF cur = <<>>
              THEN SplitEntries(Tail(ls), cur)
              ELSE <<cur>> \o SplitEntries(Tail(ls), <<>>)
         ELSE SplitEntries(Tail(ls), Append(cur, ls[1]))

\* Times are whole numbers of ticks, TimeUnit ticks to the second: the
\* milliseconds of a timestamp and the frame times frame_count / fps at 1, 5
\* and 30 frames per second are all whole.
TimeUnit == 3000

\* Mutant of TimestampSeconds: the minutes are not scaled.
TimestampSecondsFlat(hh, mm, ss, ms) ==
    (hh * 3600 + mm + ss) * TimeUnit + ms * (TimeUnit \div 1000)

\* hours * 3600 + minutes * 60 + seconds + milliseconds / 1000
TimestampSeconds(hh, mm, ss, ms) ==
    (hh * 3600 + mm * 60 + ss) * TimeUnit + ms * (TimeUnit \div 1000)

\* ' '.join(lines[2:]) on the lines of an entry.
RECURSIVE JoinLines(_)
JoinLines(ls) ==
    IF ls = <<>>
    THEN ""
    ELSE IF Len(ls) = 1
         THEN ls[1].raw
         ELSE ls[1].raw \o " " \o JoinLines(Tail(ls))

\* The body of the loop for one entry: <<>> where the code continues, the
\* new SubtitleEntry otherwise.
ParseEntry(entry) ==
    IF Len(entry) < 3
    THEN <<>>
    ELSE IF entry[1].kind # "int"
         THEN <<>>
         ELSE IF entry[2].kind # "time"
              THEN <<>>
              ELSE LET g == entry[2].groups
                       start_time == TimestampSeconds(g[1], g[2], g[3], g[4])
                       end_time == TimestampSeconds(g[5], g[6], g[7], g[8])
                       text == JoinLines(SubSeq(entry, 3, Len(entry)))
                   IN  <<SubtitleEntry(entry[1].a, start_time, end_time,
                                       text)>>

\* Mutant of ParseEntries: an invalid entry ends the loop.
RECURSIVE ParseEntriesStop(_)
ParseEntriesStop(entries) ==
    IF entries = <<>> \/ ParseEntry(entries[1]) = <<>>
    THEN <<>>
    ELSE ParseEntry(entries[1]) \o ParseEntriesStop(Tail(entries))

\* for entry in entries: ... subtitles.append(...)
RECURSIVE ParseEntries(_)
ParseEntries(entries) ==
    IF entries = <<>>
    THEN <<>>
    ELSE ParseEntry(entries[1]) \o ParseEntries(Tail(entries))

ParseSrt(ls) == ParseEntries(SplitEntries(StripLines(ls), <<>>))

\* ------------------------------------------------ rendering of a frame

\* The captions of the files below and text.split() on each.
SplitText(text) ==
    CASE text = "the cat the" -> <<"the", "cat", "the">>
      [] text = "the cat the cat the cat the" ->
             <<"the", "cat", "the", "cat", "the", "cat", "the">>
      [] text = "Hello world" -> <<"Hello", "world">>
      [] OTHER -> <<text>>

Vocabulary == {"the", "cat", "Hello", "world"}

\* word.strip('.,?!:;') on a word of the vocabulary, bare or with the
\* ellipsis appended.
Strip(word) ==
    IF \E v \in Vocabulary : word = v \o "..."
    THEN CHOOSE v \in Vocabulary : word = v \o "..."
    ELSE word

\* cv2.getTextSize(word, ...)[0][0]: CharWidth pixels per character.
CharWidth == 10

WordWidth(word) == CharWidth * Len(word)

\* int(word_width * 0.3)
SpaceWidth(word) == (WordWidth(word) * 3) \div 10

\* for word_info in subtitle.word_timings: if start <= current_time <= end:
\* ... break.  The word of the first timing that contains t, '' for none.
RECURSIVE CurrentWord(_, _, _)
CurrentWord(word_timings, t, j) ==
    IF j > Len(word_timings)
    THEN ""
    ELSE IF word_timings[j].start <= t /\ t <= word_timings[j].end
         THEN word_timings[j].word
         ELSE CurrentWord(word_timings, t, j + 1)

\* The wrap loop of _add_highlighted_text_to_frame from word i on.
RECURSIVE HighlightWrap(_, _, _, _, _, _)
HighlightWrap(words, i, wrapped_lines, current_line, current_line_width, max_line_width) ==
    IF i > Len(words)
    THEN IF current_line # <<>>
         THEN Append(wrapped_lines, current_line)
         ELSE wrapped_lines
    ELSE LET word_width == WordWidth(words[i])
             space_width == IF i > 1 THEN SpaceWidth(words[i]) ELSE 0
         IN  IF /\ current_line_width + word_width + space_width
                        > max_line_width
                /\ current_line # <<>>
             THEN HighlightWrap(words, i + 1,
                                Append(wrapped_lines, current_line),
                                <<words[i]>>, word_width, max_line_width)
             ELSE HighlightWrap(words, i + 1, wrapped_lines,
                                Append(current_line, words[i]),
                                current_line_width + word_width + space_width,
                                max_line_width)

\* "Limit to 3 lines maximum": the first three lines, "..." appended to the
\* last word of the third if it has more than one word.
LimitLines(wrapped_lines) ==
    IF Len(wrapped_lines) > 3
    THEN LET kept == SubSeq(wrapped_lines, 1, 3)
             last == kept[3]
         IN  IF Len(last) > 1
             THEN [kept EXCEPT ![3] =
                      [last EXCEPT ![Len(last)] = last[Len(last)] \o "..."]]
             ELSE kept
    ELSE wrapped_lines

\* _add_text_to_frame(frame, text, font_scale): the text, wrapped by
\* _wrap_text, in white.
AddTextToFrame(text) ==
    [call |-> "_add_text_to_frame", text |-> text, words |-> <<>>]

\* An exception raised while the frame is drawn.
RenderRaised == [call |-> "raise", text |-> "", words |-> <<>>]

\* _add_highlighted_text_to_frame: the lines drawn, word by word, each word
\* with whether it got the highlight colour.  words.index(word) raises
\* ValueError on a word that is not in words.
AddHighlightedTextToFrame(sub, t, width) ==
    LET highlighted_word == CurrentWord(sub.word_timings, t, 1)
        words == SplitText(sub.text)
        wrapped_lines ==
            LimitLines(HighlightWrap(words, 1, <<>>, <<>>, 0, width - 100))
        missing ==
            \E l \in 1 .. Len(wrapped_lines) :
                \E k \in 1 .. Len(wrapped_lines[l]) :
                    \A i \in 1 .. Len(words) : words[i] # wrapped_lines[l][k]
    IN  IF highlighted_word = ""
        THEN AddTextToFrame(sub.text)
        ELSE IF missing
             THEN RenderRaised
             ELSE [call |-> "highlighted", text |-> sub.text,
                   words |->
                      [l \in 1 .. Len(wrapped_lines) |->
                          [k \in 1 .. Len(wrapped_lines[l]) |->
                              [word |-> wrapped_lines[l][k],
                               highlighted |->
                                   Strip(wrapped_lines[l][k])
                                       = Strip(highlighted_word)]]]]

\* _add_big_word_to_frame: the current word alone, nothing where there is
\* none.
AddBigWordToFrame(sub, t) ==
    LET current_word == CurrentWord(sub.word_timings, t, 1)
    IN  IF current_word = ""
        THEN NoDrawing
        ELSE [call |-> "big_word", text |-> current_word, words |-> <<>>]

\* Mutant of RenderFrame: the highlight style alone selects the renderer.
RenderFrameByStyle(subs, active, t, style, width) ==
    IF active = 0
    THEN NoDrawing
    ELSE IF style = "standard"
         THEN AddHighlightedTextToFrame(subs[active], t, width)
         ELSE IF style = "bigword"
              THEN AddBigWordToFrame(subs[active], t)
              ELSE AddTextToFrame(subs[active].text)

\* "Add subtitle text to frame if there's an active subtitle": the choice
\* of the renderer.
RenderFrame(subs, active, t, style, width) ==
    IF active = 0
    THEN NoDrawing
    ELSE IF style = "standard" /\ subs[active].word_timings # <<>>
         THEN AddHighlightedTextToFrame(subs[active], t, width)
         ELSE IF style = "bigword" /\ subs[active].word_timings # <<>>
              THEN AddBigWordToFrame(subs[active], t)
              ELSE AddTextToFrame(subs[active].text)

\* ------------------------------------- process_videos and its frame pass

\* int(fps * 0.6) and int(fps * 1.2)
BounceCycle(f) == (f * 6) \div 10

ScaleCycle(f) == (f * 12) \div 10

\* Mutant of FrameTime: the time of the frame after.
FrameTimeNext(i, f) == ((i + 1) * TimeUnit) \div f

\* current_time = frame_count / fps, in ticks.
FrameTime(i, f) == (i * TimeUnit) \div f

\* A completed call of the frame pass on frame i; t is the time handed to it.
Call(op, i, t) == [op |-> op, frame |-> i, t |-> t]

\* The calls one pass of the loop completes on frame i, in the order of its
\* statements: cap.read, _get_active_subtitle, the renderer when an entry is
\* active, out.write.  A call that raises ends the pass.
FrameCalls(i, t, has_active, render_raises, write_raises) ==
    <<Call("read", i, 0), Call("query", i, t)>>
        \o (IF has_active /\ ~render_raises
            THEN <<Call("render", i, t)>>
            ELSE <<>>)
        \o (IF (has_active /\ render_raises) \/ write_raises
            THEN <<>>
            ELSE <<Call("write", i, 0)>>)

\* Mutant of ResetOscillator: the oscillator keeps the value the last video
\* left.
ResetOscillatorKept(old) == old

\* "Reset animation oscillator for this video": self.animation_oscillator = 0
\* before the frame loop, whatever its value old.
ResetOscillator(old) == 0

\* The handles _process_video_with_subtitles opens for video i.
HandlesOf(i) == {<<i, "cap">>, <<i, "out">>}

\* The frame-pass locals once the call has returned or raised.
FrameLocalsGone ==
    /\ fps' = 0
    /\ frame_count' = 0
    /\ frames_left' = 0
    /\ current_time' = 0
    /\ active_subtitle' = 0
    /\ rendered' = NoDrawing

\* Mutant of AfterError: an exception in one video ends the batch.
AfterErrorAbort == "aborted"

\* except Exception as e: print(...) in add_subtitles_to_video: the loop of
\* process_videos goes on.
AfterError == "videos"

\* add_subtitles_to_video up to the frame loop: the subtitle file, the word
\* timings, then _process_video_with_subtitles opening its handles.
StartVideo ==
    /\ pc = "videos"
    /\ video_index < Len(videos)
    /\ LET i == video_index + 1
           v == videos[i]
           parsed == IF v.has_srt THEN ParseSrt(v.srt) ELSE <<>>
           subs == IF highlight_style # "" /\ v.has_words
                   THEN AddWordTimings(parsed, v.words)
                   ELSE parsed
       IN  /\ video_index' = i
           /\ attempted' = Append(attempted, i)
           /\ calls' = <<>>
           /\ IF ~v.has_srt \/ parsed = <<>> \/ ~v.openable
              THEN /\ log' = [log EXCEPT ![i] =
                              IF ~v.has_srt
                              THEN {"Subtitle not found"}
                              ELSE IF parsed = <<>>
                                   THEN {"No valid subtitles found"}
                                   ELSE {"Error processing video"}]
                   /\ subtitles' = IF v.has_srt THEN subs ELSE subtitles
                   /\ pc' = IF v.has_srt /\ parsed # <<>>
                            THEN AfterError
                            ELSE "videos"
                   /\ UNCHANGED <<animation_oscillator, fps, frame_count,
                                  frames_left, current_time, active_subtitle,
                                  rendered, open_handles, temp_files>>
              ELSE /\ subtitles' = subs
                   /\ open_handles' = open_handles \cup HandlesOf(i)
                   /\ temp_files' = [temp_files EXCEPT ![i] = "partial"]
                   /\ fps' = v.fps
                   /\ frames_left' = v.frames
                   /\ frame_count' = 0
                   /\ current_time' = 0
                   /\ active_subtitle' = 0
                   /\ rendered' = NoDrawing
                   /\ animation_oscillator' =
                          ResetOscillator(animation_oscillator)
                   /\ pc' = "frames"
                   /\ UNCHANGED log
    /\ UNCHANGED <<clipper_vars, generator_vars, word_data, text_words,
                   max_width, max_lines,
                   lines, srt_lines, highlight_style, animation_style,
                   videos, output_files, ffmpeg_result>>

\* One pass of the frame loop: read, time, oscillator, active entry,
\* drawing, write, count.  failure is an error raised by the codec while the
\* frame is written.  An exception leaves the method with its handles open
\* and lands in the handler of add_subtitles_to_video.
SubtitleFrame ==
    /\ pc = "frames"
    /\ frames_left > 0
    /\ \E failure \in BOOLEAN :
          LET i == video_index
              cycle == IF animation_style = "bounce"
                       THEN BounceCycle(fps)
                       ELSE ScaleCycle(fps)
              t == FrameTime(frame_count, fps)
              active == GetActiveSubtitle(subtitles, t)
              drawing == RenderFrame(subtitles, active, t, highlight_style,
                                     videos[i].width)
              done == FrameCalls(frame_count, t, active # 0,
                                 drawing.call = "raise", failure)
          IN  IF cycle = 0
              THEN /\ FrameLocalsGone
                   /\ calls' = Append(calls, Call("read", frame_count, 0))
                   /\ log' = [log EXCEPT ![i] = {"Error processing video"}]
                   /\ pc' = AfterError
                   /\ UNCHANGED animation_oscillator
              ELSE IF drawing.call = "raise" \/ failure
                   THEN /\ FrameLocalsGone
                        /\ calls' = calls \o done
                        /\ animation_oscillator' =
                               (animation_oscillator + 1) % cycle
                        /\ log' = [log EXCEPT ![i] =
                                      {"Error processing video"}]
                        /\ pc' = AfterError
                   ELSE /\ frames_left' = frames_left - 1
                        /\ current_time' = t
                        /\ animation_oscillator' =
                               (animation_oscillator + 1) % cycle
                        /\ active_subtitle' = active
                        /\ rendered' = drawing
                        /\ frame_count' = frame_count + 1
                        /\ calls' = calls \o done
                        /\ UNCHANGED <<fps, log, pc>>
    /\ UNCHANGED <<clipper_vars, generator_vars, subtitles, word_data,
                   text_words, max_width,
                   max_lines, lines, srt_lines, highlight_style,
                   animation_style, videos, video_index, attempted,
                   open_handles, temp_files, output_files, ffmpeg_result>>

\* How subprocess.run(cmd, check=True) can end: exit status 0, a non-zero
\* exit status (CalledProcessError), no ffmpeg (FileNotFoundError), or the
\* user interrupting it (KeyboardInterrupt).
FfmpegOutcomes == {"ok", "failed", "not_found", "interrupted"}

\* Mutant of AddAudioToVideo: the handlers report and deliver nothing.
AddAudioToVideoNoFallback(temp, output, outcome) ==
    IF outcome = "ok"
    THEN [temp |-> temp, output |-> "muxed", log |-> {"Adding audio"}]
    ELSE [temp |-> temp, output |-> output,
          log |-> {"Adding audio", "Saving video without audio",
                   IF outcome = "failed"
                   THEN "Error adding audio"
                   ELSE "FFmpeg not found"}]

\* SubtitleProcessor._add_audio_to_video for the outcomes it handles: the
\* file at the temporary path, the file at the output path and the messages
\* printed.  ffmpeg writes to the output path; after a failure the silent
\* file is renamed onto it.
AddAudioToVideo(temp, output, outcome) ==
    IF outcome = "ok"
    THEN [temp |-> temp, output |-> "muxed", log |-> {"Adding audio"}]
    ELSE [temp |-> IF temp # "absent" THEN "absent" ELSE temp,
          output |-> IF temp # "absent" THEN temp ELSE output,
          log |-> {"Adding audio", "Saving video without audio",
                   IF outcome = "failed"
                   THEN "Error adding audio"
                   ELSE "FFmpeg not found"}]

\* cap.read() returns ret = False: the loop ends, both handles are released,
\* the audio is added, the temporary file removed and success printed.  An
\* interrupt while ffmpeg runs ends the program, with what ffmpeg had written
\* at the output path.
EndOfStream ==
    /\ pc = "frames"
    /\ frames_left = 0
    /\ \E outcome \in FfmpegOutcomes :
          LET i == video_index
              r == AddAudioToVideo("silent", output_files[i], outcome)
          IN  /\ open_handles' = open_handles \ HandlesOf(i)
              /\ ffmpeg_result' = [ffmpeg_result EXCEPT ![i] = outcome]
              /\ IF outcome = "interrupted"
                 THEN /\ temp_files' = [temp_files EXCEPT ![i] = "silent"]
                      /\ output_files' = [output_files EXCEPT ![i] = "partial"]
                      /\ log' = [log EXCEPT ![i] = {"Adding audio"}]
                      /\ pc' = "interrupted"
                 ELSE /\ temp_files' = [temp_files EXCEPT ![i] = "absent"]
                      /\ output_files' = [output_files EXCEPT ![i] = r.output]
                      /\ log' = [log EXCEPT ![i] =
                                    r.log \cup {"Video with subtitles saved",
                                                "Successfully processed video"}]
                      /\ pc' = "videos"
    /\ FrameLocalsGone
    /\ UNCHANGED <<clipper_vars, generator_vars, subtitles, word_data,
                   text_words, max_width,
                   max_lines, lines, srt_lines, highlight_style,
                   animation_style, animation_oscillator, videos, video_index,
                   attempted, calls>>

\* KeyboardInterrupt during the frame pass: it is not an Exception, so no
\* handler takes it and the program ends where it stands.
InterruptFrames ==
    /\ pc = "frames"
    /\ pc' = "interrupted"
    /\ FrameLocalsGone
    /\ UNCHANGED <<clipper_vars, generator_vars, subtitles, word_data,
                   text_words, max_width,
                   max_lines, lines, srt_lines, highlight_style,
                   animation_style, animation_oscillator, videos, video_index,
                   attempted, open_handles, temp_files, output_files,
                   ffmpeg_result, log, calls>>

\* The for loop of process_videos has taken every video.
FinishBatch ==
    /\ pc = "videos"
    /\ video_index = Len(videos)
    /\ pc' = "finished"
    /\ UNCHANGED <<clipper_vars, subtitle_vars, video_vars, generator_vars>>

\* ------------------------------- VerticalVideoClipper: one run of main

\* VerticalVideoClipper._add_audio_to_video: as the subtitle driver's, the
\* temporary file removed after a successful run of ffmpeg.
ClipperAddAudio(temp, output, outcome) ==
    IF outcome = "ok"
    THEN [temp |-> "absent", output |-> "muxed", log |-> {"Adding audio"}]
    ELSE [temp |-> IF temp # "absent" THEN "absent" ELSE temp,
          output |-> IF temp # "absent" THEN temp ELSE output,
          log |-> {"Adding audio", "Saving video without audio",
                   IF outcome = "failed"
                   THEN "Error adding audio"
                   ELSE "FFmpeg not found"}]

\* One pass of the loop of process on a stream that still has frames.  An
\* error raised by the detector or the codec leaves process, and main,
\* where it stands.
ClipperFrame ==
    /\ pc = "clip"
    /\ frames_left > 0
    /\ \/ /\ ProcessFrameStep
          /\ frames_left' = frames_left - 1
          /\ UNCHANGED <<pc, log>>
       \/ /\ pc' = "raised"
          /\ log' = [log EXCEPT ![1] = {"Traceback"}]
          /\ UNCHANGED <<clipper_vars, frames_left>>
    /\ UNCHANGED <<subtitle_vars, generator_vars, highlight_style,
                   animation_style,
                   animation_oscillator, videos, video_index, attempted, fps,
                   frame_count, rendered, open_handles, temp_files,
                   output_files, ffmpeg_result, calls>>

\* The end of the stream: release, _add_audio_to_video, the success message.
ClipperEnd ==
    /\ pc = "clip"
    /\ frames_left = 0
    /\ \E outcome \in FfmpegOutcomes :
          LET r == ClipperAddAudio("silent", output_files[1], outcome)
          IN  /\ open_handles' = open_handles \ HandlesOf(1)
              /\ ffmpeg_result' = [ffmpeg_result EXCEPT ![1] = outcome]
              /\ IF outcome = "interrupted"
                 THEN /\ temp_files' = [temp_files EXCEPT ![1] = "silent"]
                      /\ output_files' = [output_files EXCEPT ![1] = "partial"]
                      /\ log' = [log EXCEPT ![1] = {"Adding audio"}]
                      /\ pc' = "interrupted"
                 ELSE /\ temp_files' = [temp_files EXCEPT ![1] = r.temp]
                      /\ output_files' = [output_files EXCEPT ![1] = r.output]
                      /\ log' = [log EXCEPT ![1] =
                                    r.log \cup
                                        {"Vertical video created successfully"}]
                      /\ pc' = "clipped"
    /\ UNCHANGED <<clipper_vars, subtitle_vars, generator_vars,
                   highlight_style,
                   animation_style, animation_oscillator, videos, video_index,
                   attempted, fps, frame_count, frames_left, rendered,
                   calls>>

\* KeyboardInterrupt during the frame loop of process.
ClipperInterrupt ==
    /\ pc = "clip"
    /\ pc' = "interrupted"
    /\ UNCHANGED <<clipper_vars, subtitle_vars, video_vars, generator_vars>>

(***************************************************************************)
(*                         SubtitleGenerator                               *)
(***************************************************************************)

\* A segment of the transcription.  text is segment["text"].strip().split(),
\* the words of the text; times are in ticks.
Segment(start, end, text) == [start |-> start, end |-> end, text |-> text]

\* "Add a small gap between segments for readability": 0.1 s.
ChunkGap == TimeUnit \div 10

\* The loop over range(0, len(words), max_words) from offset i on, for a
\* segment of more words than max_words.  words_per_second is len(words) /
\* segment_duration for a positive duration and 1 otherwise, so it is always
\* positive: i / words_per_second is i * segment_duration / len(words), or i
\* seconds.
RECURSIVE Chunks(_, _, _)
Chunks(segment, i, max_words) ==
    LET words == segment.text
        segment_duration == segment.end - segment.start
        chunk == SubSeq(words, i + 1, Min(i + max_words, Len(words)))
        chunk_duration ==
            IF segment_duration > 0
            THEN (Len(chunk) * segment_duration) \div Len(words)
            ELSE Len(chunk) * TimeUnit
        offset ==
            IF segment_duration > 0
            THEN (i * segment_duration) \div Len(words)
            ELSE i * TimeUnit
        chunk_start == segment.start + offset
        chunk_end == Min(chunk_start + chunk_duration, segment.end)
    IN  IF i >= Len(words)
        THEN <<>>
        ELSE <<Segment(IF i > 0 THEN chunk_start + ChunkGap ELSE chunk_start,
                       chunk_end, chunk)>>
                 \o Chunks(segment, i + max_words, max_words)

\* The body of the loop over result["segments"] for one segment.
RefineSegment(segment, max_words) ==
    IF Len(segment.text) <= max_words
    THEN <<segment>>
    ELSE Chunks(segment, 0, max_words)

\* _refine_segments
RECURSIVE RefineSegments(_, _)
RefineSegments(segs, max_words) ==
    IF segs = <<>>
    THEN <<>>
    ELSE RefineSegment(segs[1], max_words)
             \o RefineSegments(Tail(segs), max_words)

(***************************************************************************)
(*                 Input sets of the pure-method specifications            *)
(***************************************************************************)

\* Segments of a transcription: start <= end, zero duration included, the
\* durations whole tenths of a second, up to MaxSegmentWords words.
SegmentSet ==
    {Segment(start, start + tenths * ChunkGap, [k \in 1 .. n |-> "w"]) :
        start \in {0, TimeUnit}, tenths \in 0 .. MaxTenths,
        n \in 0 .. MaxSegmentWords}

Times == 0 .. MaxTime

\* Entries for the active-entry query: every start and end, start > end too.
QueryEntries ==
    {SubtitleEntry(1, s, e, <<>>) : s \in Times, e \in Times}

\* Entries and words for the word-timing merge: start <= end.
Intervals == {iv \in Times \X Times : iv[1] <= iv[2]}

MergeEntries ==
    {SubtitleEntry(1, iv[1], iv[2], <<>>) : iv \in Intervals}

WordInfos ==
    {[word |-> "w", start |-> iv[1], end |-> iv[2]] : iv \in Intervals}

\* Entries and elements of word_data['words'] for the merge of data with
\* invalid elements: valid words, words with a field missing, an element of
\* the wrong shape.
LenientEntries == {SubtitleEntry(1, 0, 1, <<>>), SubtitleEntry(1, 1, 2, <<>>)}

LenientInfos ==
    {[word |-> "w", start |-> 0, end |-> 1],
     [word |-> "w", start |-> 1, end |-> 2],
     [word |-> "w", end |-> 2],
     [word |-> "w", start |-> 1],
     [start |-> 0, end |-> 1],
     NotAnObject}

CaptionWords == {<<"a">>, <<"b", "b">>, <<"c", "c", "c">>}

\* 00:00:01,000 --> 00:00:03,500 and 01:02:03,004 --> 01:02:04,050
StampA == TimeLine(<<0, 0, 1, 0>>, <<0, 0, 3, 500>>)

StampB == TimeLine(<<1, 2, 3, 4>>, <<1, 2, 4, 50>>)

SrtLineSet == {BlankLine, IntLine(1), StampA, TextLine("Hello world")}

\* The lines of files whose entries differ in their times.
TimedLineSet == SrtLineSet \cup {StampB}

\* The clipper's variables while a SubtitleProcessor method runs.
ClipperIdle ==
    /\ input_width = 0
    /\ input_height = 0
    /\ crop_width = 0
    /\ crop_height = 0
    /\ last_crop_x = 0
    /\ last_crop_y = 0
    /\ zoom_state = "neutral"
    /\ zoom_factor = ZoomUnit
    /\ zoom_duration = 0
    /\ zoom_step = 0
    /\ frames_since_last_zoom = 0
    /\ target_x = 0
    /\ target_y = 0
    /\ smoothing_factor = SmoothingFactor
    /\ person_center = None
    /\ crop = NoRect
    /\ zoomed = NoRect

(***************************************************************************)
(*          Spec: VerticalVideoClipper.process, frame after frame          *)
(***************************************************************************)

Init ==
    /\ pc = "process"
    /\ ClipperInit
    /\ SubtitleIdle
    /\ VideoIdle
    /\ GeneratorIdle

Next == ProcessFrame

Spec == Init /\ [][Next]_vars

(***************************************************************************)
(*     SpecRefine: SubtitleGenerator._refine_segments on a transcription   *)
(***************************************************************************)

InitRefine ==
    /\ pc = "refine"
    /\ ClipperIdle
    /\ SubtitleIdle
    /\ VideoIdle
    /\ max_words_per_subtitle \in 1 .. MaxWordsCap
    /\ \E n \in 1 .. MaxSegments : segments \in [1 .. n -> SegmentSet]
    /\ refined_segments = <<>>

Refine ==
    /\ pc = "refine"
    /\ refined_segments' = RefineSegments(segments, max_words_per_subtitle)
    /\ pc' = "refined"
    /\ UNCHANGED <<clipper_vars, subtitle_vars, video_vars,
                   max_words_per_subtitle, segments>>

SpecRefine == InitRefine /\ [][Refine]_vars

(***************************************************************************)
(*     SpecSteady: process on a stream of frames that all show the subject *)
(*     at the same point.  The loop takes frame after frame while the      *)
(*     stream delivers them.                                               *)
(***************************************************************************)

InitSteady ==
    /\ pc = "steady"
    /\ ClipperInit
    /\ SubtitleIdle
    /\ VideoIdle
    /\ GeneratorIdle

\* A frame of the loop: detect_person returns the point it returned on the
\* frame before.
SteadyFrame ==
    /\ pc = "steady"
    /\ \E p \in Detections \ {None} :
          /\ person_center \in {None, p}
          /\ ProcessFrameOn(p)
    /\ UNCHANGED <<subtitle_vars, video_vars, generator_vars, pc>>

SpecSteady == InitSteady /\ [][SteadyFrame]_vars /\ WF_vars(SteadyFrame)

(***************************************************************************)
(*     SpecZoom: apply_zoom_effect, call after call, on the crop window    *)
(*     of a new clipper                                                    *)
(***************************************************************************)

InitZoom ==
    /\ pc = "zoom"
    /\ ClipperInit
    /\ SubtitleIdle
    /\ VideoIdle
    /\ GeneratorIdle

\* apply_zoom_effect(self.last_crop_x, self.last_crop_y, self.crop_width,
\* self.crop_height): the state update, then the rectangle.
ApplyZoomEffect ==
    /\ pc = "zoom"
    /\ \E rnd \in RandomDraws(ZoomRecord) :
          LET z == ZoomUpdate(ZoomRecord, rnd.r, rnd.dir, rnd.dur, rnd.delta)
          IN  /\ zoom_state' = z.state
              /\ zoom_factor' = z.factor
              /\ zoom_duration' = z.duration
              /\ zoom_step' = z.step
              /\ frames_since_last_zoom' = z.since
              /\ zoomed' = ZoomRect(last_crop_x, last_crop_y, crop_width,
                                    crop_height, z.factor)
    /\ UNCHANGED <<input_width, input_height, crop_width, crop_height,
                   last_crop_x, last_crop_y, target_x, target_y,
                   smoothing_factor, person_center, crop, subtitle_vars,
                   video_vars, generator_vars, pc>>

SpecZoom == InitZoom /\ [][ApplyZoomEffect]_vars

(***************************************************************************)
(*     SpecSmooth: the position update of process for given position,      *)
(*     target and smoothing factor                                         *)
(***************************************************************************)

InitSmooth ==
    /\ pc = "smooth"
    /\ SubtitleIdle
    /\ VideoIdle
    /\ GeneratorIdle
    /\ input_width = 0
    /\ input_height = 0
    /\ crop_width = 0
    /\ crop_height = 0
    /\ last_crop_x \in 0 .. MaxPos
    /\ last_crop_y = 0
    /\ zoom_state = "neutral"
    /\ zoom_factor = ZoomUnit
    /\ zoom_duration = 0
    /\ zoom_step = 0
    /\ frames_since_last_zoom = 0
    /\ target_x \in 0 .. MaxPos
    /\ target_y \in 0 .. MaxPos
    /\ smoothing_factor \in {SmoothingFactor, 100}     \* 0.05 and 1.0
    /\ person_center = None
    /\ crop = NoRect
    /\ zoomed = NoRect

\* self.last_crop_x = int(...); self.last_crop_y = int(...)
SmoothPosition ==
    /\ pc = "smooth"
    /\ last_crop_x' = SmoothPos(last_crop_x, target_x, smoothing_factor)
    /\ last_crop_y' = SmoothPos(last_crop_y, target_y, smoothing_factor)
    /\ pc' = "smoothed"
    /\ UNCHANGED <<input_width, input_height, crop_width, crop_height,
                   zoom_state, zoom_factor, zoom_duration, zoom_step,
                   frames_since_last_zoom, target_x, target_y,
                   smoothing_factor, person_center, crop, zoomed,
                   subtitle_vars, video_vars, generator_vars>>

SpecSmooth == InitSmooth /\ [][SmoothPosition]_vars

(***************************************************************************)
(*     SpecActive: _get_active_subtitle on a list of entries and a time    *)
(***************************************************************************)

InitActive ==
    /\ pc = "query"
    /\ ClipperIdle
    /\ VideoIdle
    /\ GeneratorIdle
    /\ \E n \in 0 .. MaxEntries : subtitles \in [1 .. n -> QueryEntries]
    /\ current_time \in Times
    /\ active_subtitle = 0
    /\ word_data = <<>>
    /\ text_words = <<>>
    /\ max_width = 0
    /\ max_lines = 0
    /\ lines = <<>>
    /\ srt_lines = <<>>

GetActive ==
    /\ pc = "query"
    /\ active_subtitle' = GetActiveSubtitle(subtitles, current_time)
    /\ pc' = "queried"
    /\ UNCHANGED <<clipper_vars, video_vars, generator_vars, subtitles,
                   current_time, word_data,
                   text_words, max_width, max_lines, lines, srt_lines>>

SpecActive == InitActive /\ [][GetActive]_vars

(***************************************************************************)
(*     SpecWords: _add_word_timings_to_subtitles on entries and words      *)
(***************************************************************************)

InitWords ==
    /\ pc = "merge"
    /\ ClipperIdle
    /\ VideoIdle
    /\ GeneratorIdle
    /\ \E n \in 1 .. MaxMergeEntries : subtitles \in [1 .. n -> MergeEntries]
    /\ current_time = 0
    /\ active_subtitle = 0
    /\ \E n \in 0 .. MaxWordInfos : word_data \in [1 .. n -> WordInfos]
    /\ text_words = <<>>
    /\ max_width = 0
    /\ max_lines = 0
    /\ lines = <<>>
    /\ srt_lines = <<>>

AddWords ==
    /\ pc = "merge"
    /\ subtitles' = AddWordTimings(subtitles, word_data)
    /\ pc' = "merged"
    /\ UNCHANGED <<clipper_vars, video_vars, generator_vars, current_time,
                   active_subtitle, word_data,
                   text_words, max_width, max_lines, lines, srt_lines>>

SpecWords == InitWords /\ [][AddWords]_vars

(***************************************************************************)
(*     SpecWrap: _wrap_text on a caption, a width and a line cap           *)
(***************************************************************************)

InitWrap ==
    /\ pc = "wrap"
    /\ ClipperIdle
    /\ VideoIdle
    /\ GeneratorIdle
    /\ subtitles = <<>>
    /\ current_time = 0
    /\ active_subtitle = 0
    /\ word_data = <<>>
    /\ \E n \in 0 .. MaxTextWords : text_words \in [1 .. n -> CaptionWords]
    /\ max_width \in 1 .. MaxWidthBound
    /\ max_lines \in 1 .. MaxLinesBound
    /\ lines = <<>>
    /\ srt_lines = <<>>

Wrap ==
    /\ pc = "wrap"
    /\ lines' = WrapText(text_words, max_width, max_lines)
    /\ pc' = "wrapped"
    /\ UNCHANGED <<clipper_vars, video_vars, generator_vars, subtitles,
                   current_time, active_subtitle,
                   word_data, text_words, max_width, max_lines, srt_lines>>

SpecWrap == InitWrap /\ [][Wrap]_vars

(***************************************************************************)
(*     SpecSrt: parse_srt on the lines of a file                           *)
(***************************************************************************)

InitSrt ==
    /\ pc = "parse"
    /\ ClipperIdle
    /\ VideoIdle
    /\ GeneratorIdle
    /\ subtitles = <<>>
    /\ current_time = 0
    /\ active_subtitle = 0
    /\ word_data = <<>>
    /\ text_words = <<>>
    /\ max_width = 0
    /\ max_lines = 0
    /\ lines = <<>>
    /\ \E n \in 0 .. MaxSrtLines : srt_lines \in [1 .. n -> SrtLineSet]

Parse ==
    /\ pc = "parse"
    /\ subtitles' = ParseSrt(srt_lines)
    /\ pc' = "parsed"
    /\ UNCHANGED <<clipper_vars, video_vars, generator_vars, current_time,
                   active_subtitle, word_data,
                   text_words, max_width, max_lines, lines, srt_lines>>

SpecSrt == InitSrt /\ [][Parse]_vars

(***************************************************************************)
(*     SpecSrtTimed: parse_srt on files whose entries differ in time       *)
(***************************************************************************)

InitSrtTimed ==
    /\ pc = "parse"
    /\ ClipperIdle
    /\ VideoIdle
    /\ GeneratorIdle
    /\ subtitles = <<>>
    /\ current_time = 0
    /\ active_subtitle = 0
    /\ word_data = <<>>
    /\ text_words = <<>>
    /\ max_width = 0
    /\ max_lines = 0
    /\ lines = <<>>
    /\ \E n \in 0 .. MaxTimedLines : srt_lines \in [1 .. n -> TimedLineSet]

SpecSrtTimed == InitSrtTimed /\ [][Parse]_vars

(***************************************************************************)
(*     SpecWordsLenient: _add_word_timings_to_subtitles on word data with  *)
(*     invalid elements                                                    *)
(***************************************************************************)

InitWordsLenient ==
    /\ pc = "merge"
    /\ ClipperIdle
    /\ VideoIdle
    /\ GeneratorIdle
    /\ \E n \in 1 .. MaxMergeEntries :
          subtitles \in [1 .. n -> LenientEntries]
    /\ current_time = 0
    /\ active_subtitle = 0
    /\ \E n \in 0 .. MaxLenientInfos : word_data \in [1 .. n -> LenientInfos]
    /\ text_words = <<>>
    /\ max_width = 0
    /\ max_lines = 0
    /\ lines = <<>>
    /\ srt_lines = <<>>

SpecWordsLenient == InitWordsLenient /\ [][AddWords]_vars

(***************************************************************************)
(*     SpecDrivers: SubtitleProcessor.process_videos on a batch of videos, *)
(*     and one run of VerticalVideoClipper                                 *)
(***************************************************************************)

\* 1 / 00:00:00,100 --> 00:00:00,500 / the cat the, then
\* 2 / 00:00:00,600 --> 00:00:00,900 / Hello world
SrtCaptions ==
    <<IntLine(1), TimeLine(<<0, 0, 0, 100>>, <<0, 0, 0, 500>>),
      TextLine("the cat the"), BlankLine,
      IntLine(2), TimeLine(<<0, 0, 0, 600>>, <<0, 0, 0, 900>>),
      TextLine("Hello world")>>

\* the 0.1-0.2, cat 0.2-0.3, the 0.3-0.5: the words of the first caption.
WordsCaptions ==
    <<[word |-> "the", start |-> TimeUnit \div 10, end |-> TimeUnit \div 5],
      [word |-> "cat", start |-> TimeUnit \div 5,
       end |-> (3 * TimeUnit) \div 10],
      [word |-> "the", start |-> (3 * TimeUnit) \div 10,
       end |-> TimeUnit \div 2]>>

Video(has_srt, srt, has_words, openable, f, frames) ==
    [has_srt |-> has_srt, srt |-> srt, has_words |-> has_words,
     words |-> WordsCaptions, openable |-> openable, fps |-> f,
     frames |-> frames, width |-> 1100]

\* 1 / 00:00:00,000 --> 00:00:00,500 / the cat the cat the cat the
SrtLongCaption ==
    <<IntLine(1), TimeLine(<<0, 0, 0, 0>>, <<0, 0, 0, 500>>),
      TextLine("the cat the cat the cat the")>>

\* A frame 170 pixels wide: two words of the caption to the line.
NarrowWidth == 170

\* A video of MaxFrames frames at 30 frames per second with word timings,
\* one at 5 frames per second without, one at 1 frame per second, one with
\* no subtitle file, one whose subtitle file has no valid block, one that
\* cannot be opened, and a narrow one whose caption of seven words has word
\* timings.
VideoSet ==
    {Video(TRUE, SrtCaptions, TRUE, TRUE, 30, MaxFrames),
     Video(TRUE, SrtCaptions, FALSE, TRUE, 5, 7),
     Video(TRUE, SrtCaptions, TRUE, TRUE, 1, 2),
     Video(FALSE, <<>>, FALSE, TRUE, 30, 2),
     Video(TRUE, <<TextLine("Hello world")>>, FALSE, TRUE, 30, 2),
     Video(TRUE, SrtCaptions, TRUE, FALSE, 30, 2),
     [Video(TRUE, SrtLongCaption, TRUE, TRUE, 5, 3)
         EXCEPT !.width = NarrowWidth]}

InitVideos ==
    /\ pc = "videos"
    /\ ClipperIdle
    /\ SubtitleIdle
    /\ highlight_style \in {"", "standard", "bigword"}
    /\ animation_style \in {"bounce", "scale"}
    /\ animation_oscillator = 0
    /\ \E n \in 1 .. MaxVideos :
          /\ videos \in [1 .. n -> VideoSet]
          /\ temp_files = [i \in 1 .. n |-> "absent"]
          /\ output_files = [i \in 1 .. n |-> "absent"]
          /\ ffmpeg_result = [i \in 1 .. n |-> "none"]
          /\ log = [i \in 1 .. n |-> {}]
    /\ video_index = 0
    /\ attempted = <<>>
    /\ fps = 0
    /\ frame_count = 0
    /\ frames_left = 0
    /\ rendered = NoDrawing
    /\ open_handles = {}
    /\ calls = <<>>
    /\ GeneratorIdle

\* VerticalVideoClipper.__init__ on a video of up to MaxClipFrames frames:
\* the capture and the writer are open, the writer's file is begun.
InitClipperRun ==
    /\ pc = "clip"
    /\ ClipperInit
    /\ SubtitleIdle
    /\ highlight_style = ""
    /\ animation_style = "bounce"
    /\ animation_oscillator = 0
    /\ videos = <<>>
    /\ video_index = 0
    /\ attempted = <<>>
    /\ fps = 0
    /\ frame_count = 0
    /\ frames_left \in 0 .. MaxClipFrames
    /\ rendered = NoDrawing
    /\ open_handles = HandlesOf(1)
    /\ temp_files = <<"partial">>
    /\ output_files = <<"absent">>
    /\ ffmpeg_result = <<"none">>
    /\ log = <<{}>>
    /\ calls = <<>>
    /\ GeneratorIdle

InitDrivers == InitVideos \/ InitClipperRun

NextDrivers ==
    \/ StartVideo
    \/ SubtitleFrame
    \/ EndOfStream
    \/ InterruptFrames
    \/ FinishBatch
    \/ ClipperFrame
    \/ ClipperEnd
    \/ ClipperInterrupt

SpecDrivers == InitDrivers /\ [][NextDrivers]_vars

(***************************************************************************)
(*                              Properties                                 *)
(***************************************************************************)

FrameProcessed == crop # NoRect

\* C1: on every frame process handles, whatever the detections and the random
\* zoom choices, the rectangle used to slice the frame lies inside the
\* source: 0 <= crop_x, crop_x + crop_width <= input_width, 0 <= crop_y,
\* crop_y + crop_height <= input_height.
C1_CropInBounds ==
    FrameProcessed =>
        /\ 0 <= crop.x
        /\ crop.x + crop.w <= input_width
        /\ 0 <= crop.y
        /\ crop.y + crop.h <= input_height

\* A frame sliced while zoomed in, the subject detected beyond the right and
\* bottom edges and the smoothed position moved off its start.
C1_Witness ==
    /\ FrameProcessed
    /\ person_center = <<input_width + 1, input_height + 1>>
    /\ zoom_factor > min_zoom
    /\ crop.w < crop_width
    /\ last_crop_x = 5

\* C2: after every call of apply_zoom_effect zoom_factor lies in
\* [min_zoom, max_zoom].
C2_ZoomFactorInRange ==
    min_zoom <= zoom_factor /\ zoom_factor <= max_zoom

\* A zoom-in that was cut short and clamped at max_zoom.
C2_Witness ==
    /\ FrameProcessed
    /\ zoom_state = "neutral"
    /\ zoom_factor = max_zoom
    /\ zoom_step > 0
    /\ zoom_duration > 0

\* C3: a frame on which no subject is detected leaves the crop target as it
\* was.
C3_TargetHeld ==
    [][person_center' = None =>
           (target_x' = target_x /\ target_y' = target_y)]_vars

\* A frame without a detection after the target had been moved away from the
\* centred start by an earlier detection.
C3_Witness ==
    /\ FrameProcessed
    /\ person_center = None
    /\ target_x = input_width - crop_width
    /\ target_x # (input_width - crop_width) \div 2

Containing(subs, t) ==
    {i \in 1 .. Len(subs) : subs[i].start_time <= t /\ t <= subs[i].end_time}

\* C5: _get_active_subtitle returns the first entry in list order whose range
\* [start_time, end_time] contains the time, and None exactly when no range
\* contains it.
C5_FirstContaining ==
    pc = "queried" =>
        LET hits == Containing(subtitles, current_time)
        IN  IF hits = {}
            THEN active_subtitle = 0
            ELSE /\ active_subtitle \in hits
                 /\ \A j \in hits : active_subtitle <= j

\* Two overlapping entries contain the time, the first entry of the list does
\* not, and the time is the end of the entry returned.
C5_Witness ==
    /\ pc = "queried"
    /\ active_subtitle = 2
    /\ 3 \in Containing(subtitles, current_time)
    /\ current_time = subtitles[2].end_time

\* The words of word_data that pass a test against an entry, in their order.
WordsPassing(sub, Test(_, _)) ==
    LET keep(w) == Test(w, sub)
    IN  SelectSeq(word_data, keep)

InclusiveOverlap(w, sub) ==
    w.start <= sub.end_time /\ w.end >= sub.start_time

\* The intervals share more than a point, or one of them is a single point
\* lying in the other.
ProperOrPointOverlap(w, sub) ==
    \/ (w.start < sub.end_time /\ w.end > sub.start_time)
    \/ /\ (w.start = w.end \/ sub.start_time = sub.end_time)
       /\ InclusiveOverlap(w, sub)

\* C6 as stated: every entry is assigned exactly the words that overlap it
\* under the inclusive-boundary test, so a word that only touches an entry
\* boundary is assigned.
C6_InclusiveAssigned ==
    pc = "merged" =>
        \A i \in 1 .. Len(subtitles) :
            subtitles[i].word_timings = WordsPassing(subtitles[i], InclusiveOverlap)

\* C6 as amended: for entries and words with start <= end, every entry is
\* assigned exactly the words whose interval shares more than a single point
\* with the entry's, together with the words that touch it where the word or
\* the entry has zero duration; a word of positive duration that only touches
\* the boundary of an entry of positive duration is not assigned, a word
\* straddling two entries is assigned to both.
C6_ProperOverlapAssigned ==
    pc = "merged" =>
        \A i \in 1 .. Len(subtitles) :
            subtitles[i].word_timings =
                WordsPassing(subtitles[i], ProperOrPointOverlap)

\* One word straddling the boundary of two adjacent entries of positive
\* duration, assigned to both.
C6_Witness ==
    /\ pc = "merged"
    /\ Len(subtitles) = 2
    /\ Len(word_data) = 1
    /\ subtitles[1].start_time < subtitles[1].end_time
    /\ subtitles[1].end_time = subtitles[2].start_time
    /\ subtitles[2].start_time < subtitles[2].end_time
    /\ word_data[1].start < subtitles[1].end_time
    /\ word_data[1].end > subtitles[2].start_time
    /\ subtitles[1].word_timings = word_data
    /\ subtitles[2].word_timings = word_data

\* The number of leading words that go on one line: the longest run whose
\* joined width is at most mw, and one word when even the first is wider.
FitCount(words, mw) ==
    LET fits == {k \in 1 .. Len(words) :
                    TextWidth(JoinWords(SubSeq(words, 1, k))) <= mw}
    IN  IF fits = {} THEN 1 ELSE CHOOSE k \in fits : \A j \in fits : j <= k

\* The greedy layout of the words, without a cap on the number of lines.
RECURSIVE GreedyLines(_, _)
GreedyLines(words, mw) ==
    IF words = <<>>
    THEN <<>>
    ELSE LET k == FitCount(words, mw)
         IN  <<JoinWords(SubSeq(words, 1, k))>>
                 \o GreedyLines(SubSeq(words, k + 1, Len(words)), mw)

EndsWithEllipsis(str) ==
    /\ Len(str) >= 3
    /\ SubSeq(str, Len(str) - 2, Len(str)) = Ellipsis

\* C7: when the wrapped content needs more than max_lines lines, _wrap_text
\* returns max_lines lines and the last of them ends with an ellipsis.
C7_EllipsisOnOverflow ==
    (pc = "wrapped" /\ Len(GreedyLines(text_words, max_width)) > max_lines) =>
        /\ Len(lines) = max_lines
        /\ EndsWithEllipsis(lines[max_lines])

\* C8: when the words can be laid out greedily in at most max_lines lines,
\* _wrap_text returns that layout: each line the longest run of the remaining
\* words that fits, every word exactly once and in order.
C8_GreedyLayout ==
    (/\ pc = "wrapped"
     /\ \A i \in 1 .. Len(text_words) : TextWidth(text_words[i]) <= max_width
     /\ Len(GreedyLines(text_words, max_width)) <= max_lines) =>
        lines = GreedyLines(text_words, max_width)

\* C9: _wrap_text returns at most max_lines lines, for max_lines >= 1.
C9_AtMostMaxLines ==
    pc = "wrapped" => Len(lines) <= max_lines

\* A caption that needs more lines than the cap of three, cut to three.
C9_Witness ==
    /\ pc = "wrapped"
    /\ max_lines = 3
    /\ Len(GreedyLines(text_words, max_width)) > max_lines
    /\ Len(lines) = max_lines

\* The blocks of the file, by the positions of their lines: a block starts at
\* a non-blank line that follows a blank line or opens the file, and runs to
\* the last line before the next blank line.
BlockStarts ==
    {i \in 1 .. Len(srt_lines) :
        /\ srt_lines[i].kind # "blank"
        /\ (i = 1 \/ srt_lines[i - 1].kind = "blank")}

BlockEnd(i) ==
    CHOOSE j \in i .. Len(srt_lines) :
        /\ \A k \in i .. j : srt_lines[k].kind # "blank"
        /\ (j = Len(srt_lines) \/ srt_lines[j + 1].kind = "blank")

\* An integer index line, a timestamp line and at least one text line.
WellFormedBlock(i) ==
    /\ BlockEnd(i) - i + 1 >= 3
    /\ srt_lines[i].kind = "int"
    /\ srt_lines[i + 1].kind = "time"

WellFormedStarts == {i \in BlockStarts : WellFormedBlock(i)}

\* The k-th well-formed block in file order.
NthWellFormed(k) ==
    CHOOSE i \in WellFormedStarts :
        Cardinality({j \in WellFormedStarts : j < i}) = k - 1

\* C10: parse_srt skips every malformed block (fewer than three lines, a
\* non-integer index line, a timestamp line that does not match) and returns
\* one entry for each well-formed block, in file order, whatever malformed
\* blocks surround it.
C10_WellFormedBlocksKept ==
    pc = "parsed" =>
        /\ Len(subtitles) = Cardinality(WellFormedStarts)
        /\ \A k \in 1 .. Len(subtitles) :
              LET i == NthWellFormed(k)
              IN  subtitles[k] =
                      ParseEntry(SubSeq(srt_lines, i, BlockEnd(i)))[1]

\* Two well-formed blocks with a malformed block between them, both kept.
C10_Witness ==
    /\ pc = "parsed"
    /\ Cardinality(BlockStarts) = 3
    /\ Len(subtitles) = 2
    /\ 1 \in WellFormedStarts
    /\ subtitles[1] # subtitles[2]

\* The text lines i .. j of the file, a single space between neighbours.
RECURSIVE SpacedText(_, _)
SpacedText(i, j) ==
    IF i = j
    THEN srt_lines[i].raw
    ELSE SpacedText(i, j - 1) \o " " \o srt_lines[j].raw

\* C11: for a well-formed block parse_srt yields start_time = HH*3600 + MM*60
\* + SS + mmm/1000, end_time likewise, and text equal to the text lines
\* joined with single spaces; the block 1 / 00:00:01,000 --> 00:00:03,500 /
\* Hello world parses to start_time 1.0, end_time 3.5, text "Hello world"
\* (times in ticks, a millisecond three ticks).
C11_TimesAndText ==
    pc = "parsed" =>
        /\ \A k \in 1 .. Len(subtitles) :
              LET i == NthWellFormed(k)
                  g == srt_lines[i + 1].groups
              IN  /\ subtitles[k].start_time =
                         g[1] * 3600 * TimeUnit + g[2] * 60 * TimeUnit
                             + g[3] * TimeUnit + (g[4] * TimeUnit) \div 1000
                  /\ subtitles[k].end_time =
                         g[5] * 3600 * TimeUnit + g[6] * 60 * TimeUnit
                             + g[7] * TimeUnit + (g[8] * TimeUnit) \div 1000
                  /\ subtitles[k].text = SpacedText(i + 2, BlockEnd(i))
        /\ srt_lines = <<IntLine(1), StampA, TextLine("Hello world")>> =>
              subtitles = <<[index |-> 1, start_time |-> TimeUnit,
                             end_time |-> (7 * TimeUnit) \div 2,
                             text |-> "Hello world",
                             word_timings |-> <<>>]>>

\* An entry with hours, minutes, seconds and milliseconds all non-zero after
\* the entry of the example.
C11_Witness ==
    /\ pc = "parsed"
    /\ Len(subtitles) = 2
    /\ subtitles[1].start_time = TimeUnit
    /\ subtitles[1].text = "Hello world"
    /\ subtitles[2].start_time = 3723 * TimeUnit + 12
    /\ subtitles[2].end_time = 3724 * TimeUnit + 150
    /\ subtitles[2].index = 1

\* C19: the list parse_srt returns is time-ordered (non-decreasing
\* start_time) for every SRT input.
C19_TimeOrdered ==
    pc = "parsed" =>
        \A k \in 1 .. Len(subtitles) - 1 :
            subtitles[k].start_time <= subtitles[k + 1].start_time


\* A valid element of the word data: an object with its three fields.
ValidInfo(word_info) == DOMAIN word_info = {"word", "start", "end"}

\* C12: an invalid element of the word data (a missing word, start or end
\* field, an element of the wrong shape) is skipped alone, and every entry is
\* still assigned every remaining valid word that overlaps it.
C12_InvalidSkipped ==
    pc = "merged" =>
        \A i \in 1 .. Len(subtitles) :
            LET keep(w) == ValidInfo(w) /\ WordOverlaps(w, subtitles[i])
            IN  subtitles[i].word_timings = SelectSeq(word_data, keep)

\* A frame of the current video has been drawn and written.
FrameDrawn == pc = "frames" /\ frame_count > 0

\* C13: with highlight_style 'standard' or 'bigword' and an active entry
\* that has no word timings, the frame is drawn exactly as in plain mode,
\* the entry's text through _add_text_to_frame, and the frame pass goes on.
C13_PlainFallback ==
    (/\ FrameDrawn
     /\ highlight_style \in {"standard", "bigword"}
     /\ active_subtitle # 0
     /\ subtitles[active_subtitle].word_timings = <<>>)
        => rendered = AddTextToFrame(subtitles[active_subtitle].text)

\* The second caption, which no word overlaps, drawn in bigword mode.
C13_Witness ==
    /\ FrameDrawn
    /\ highlight_style = "bigword"
    /\ active_subtitle = 2
    /\ subtitles[1].word_timings # <<>>
    /\ subtitles[2].word_timings = <<>>
    /\ rendered = AddTextToFrame("Hello world")

\* The cycle length of the animation style in use.
CycleLength ==
    IF animation_style = "bounce" THEN BounceCycle(fps) ELSE ScaleCycle(fps)

\* C14: during the frame pass the oscillator has been incremented once per
\* frame modulo the cycle length of the style, int(0.6*fps) for bounce and
\* int(1.2*fps) for scale: it lies in [0, cycle) and is back at 0 after
\* exactly cycle frames (18 at 30 frames per second for bounce).
C14_OscillatorCycles ==
    pc = "frames" =>
        /\ 0 <= animation_oscillator
        /\ animation_oscillator < CycleLength
        /\ animation_oscillator = frame_count % CycleLength

C16_EveryVideoAttempted ==
    /\ attempted = [k \in 1 .. video_index |-> k]
    /\ pc \notin {"videos", "frames", "interrupted"} =>
           video_index = Len(videos)

\* A batch that finished after an error in its first video, the second
\* video processed to the end.
C16_Witness ==
    /\ pc = "finished"
    /\ Len(videos) = 2
    /\ log[1] = {"Error processing video"}
    /\ open_handles # {}
    /\ "Successfully processed video" \in log[2]

\* C17: the decode handle and the encode handle of a video are released on
\* every exit path of its processing: completion, an error raised in a
\* frame, interruption.  No handle is open while no video is in its frame
\* loop.
C17_HandlesReleased ==
    pc \notin {"frames", "clip"} => open_handles = {}

\* C18: nothing is at the final output path unless both the frame pass and
\* the audio step have succeeded.
C18_OutputOnlyAfterSuccess ==
    \A i \in DOMAIN output_files :
        output_files[i] # "absent" => ffmpeg_result[i] = "ok"

\* The positions of the drawn words that got the highlight colour.
Recolored ==
    {q \in (1 .. Len(rendered.words)) \X (1 .. 7) :
        /\ q[2] <= Len(rendered.words[q[1]])
        /\ rendered.words[q[1]][q[2]].highlighted}

\* C20: in standard mode the word recolored on a frame is the current word,
\* the first word timing of the active entry that contains the frame time,
\* and no other word of the caption is recolored.
C20_OnlyCurrentWordRecolored ==
    (FrameDrawn /\ rendered.call = "highlighted") =>
        /\ Cardinality(Recolored) <= 1
        /\ \A q \in Recolored :
              Strip(rendered.words[q[1]][q[2]].word) =
                  CurrentWord(subtitles[active_subtitle].word_timings,
                              current_time, 1)

\* The positions of the completed calls op on frame i.
CallsAt(op, i) ==
    {k \in 1 .. Len(calls) : calls[k].op = op /\ calls[k].frame = i}

\* C21: for the frame with zero-based index i the subtitle lookup uses
\* t = i/fps, and within each frame the steps run in order: the active-entry
\* query precedes rendering, rendering precedes writing the frame, and frame i
\* is written before frame i+1 is read.
C21_FrameOrder ==
    \A k \in 1 .. Len(calls) :
        LET c == calls[k]
        IN  /\ c.op = "read" =>
                  /\ c.frame = Cardinality({j \in 1 .. k - 1 :
                                               calls[j].op = "read"})
                  /\ c.frame > 0 =>
                         \E j \in CallsAt("write", c.frame - 1) : j < k
            /\ c.op = "query" =>
                  /\ c.t * videos[video_index].fps = c.frame * TimeUnit
                  /\ \E j \in CallsAt("read", c.frame) : j < k
            /\ c.op = "render" =>
                  \E j \in CallsAt("query", c.frame) : j < k /\ calls[j].t = c.t
            /\ c.op = "write" =>
                  /\ \E j \in CallsAt("query", c.frame) : j < k
                  /\ \A j \in CallsAt("render", c.frame) : j < k

\* Five frames of a video at 30 frames per second written, the caption that
\* starts at 0.1 s drawn on frame 3 and nothing drawn on frame 2.
C21_Witness ==
    /\ pc = "frames"
    /\ frame_count = 5
    /\ CallsAt("render", 2) = {}
    /\ CallsAt("render", 3) # {}
    /\ \E k \in CallsAt("query", 3) : calls[k].t = TimeUnit \div 10
    /\ CallsAt("write", 4) # {}

\* C22: the zoom state machine leaves NEUTRAL only on a call where the
\* incremented frames_since_last_zoom exceeds 120, and always leaves it on
\* the call where the incremented frames_since_last_zoom exceeds 300; on that
\* transition frames_since_last_zoom is reset to 0 and the duration is set
\* to a value in [150, 210].
C22_LeavesNeutral ==
    [][zoom_state = "neutral" =>
          /\ zoom_state' # "neutral" =>
                /\ frames_since_last_zoom + 1 > ZoomWaitMin
                /\ frames_since_last_zoom' = 0
                /\ zoom_duration' \in ZoomDurMin .. ZoomDurMax
          /\ frames_since_last_zoom + 1 > ZoomWaitMax =>
                zoom_state' # "neutral"]_vars

\* A zoom out just started, after an earlier zoom in had raised the factor.
C22_Witness ==
    /\ zoom_state = "zooming_out"
    /\ frames_since_last_zoom = 0
    /\ zoom_duration = ZoomDurMax
    /\ zoom_factor > min_zoom
    /\ zoomed # NoRect

Zooming == zoom_state \in DirectionSet

\* C23: once the zoom state is ZOOMING_IN or ZOOMING_OUT every call takes one
\* from the remaining duration, and the state is NEUTRAL after the call on
\* which the remaining duration reaches 0 or zoom_factor reaches its bound,
\* hence within at most 210 calls; whenever the state is ZOOMING_IN or
\* ZOOMING_OUT after a call the remaining duration is at least 1.
C23_ZoomEnds ==
    /\ [](Zooming => (1 <= zoom_duration /\ zoom_duration <= ZoomDurMax))
    /\ [][Zooming =>
             /\ zoom_duration' = zoom_duration - 1
             /\ zoom_state' \in {"neutral", zoom_state}
             /\ (\/ zoom_duration' <= 0
                 \/ (zoom_state = "zooming_in" /\ zoom_factor' >= max_zoom)
                 \/ (zoom_state = "zooming_out" /\ zoom_factor' <= min_zoom))
                    => zoom_state' = "neutral"]_vars

\* A zoom that ran for its whole duration and ended between the bounds.
C23_Witness ==
    /\ zoom_state = "neutral"
    /\ zoom_duration = 0
    /\ zoom_step > 0
    /\ frames_since_last_zoom = 0
    /\ min_zoom < zoom_factor
    /\ zoom_factor < max_zoom

\* C28: a call made in NEUTRAL, the call that starts a zoom included, leaves
\* zoom_factor unchanged; a call made in ZOOMING_IN never decreases
\* zoom_factor and a call made in ZOOMING_OUT never increases it.
C28_ZoomMonotone ==
    [][/\ zoom_state = "neutral" => zoom_factor' = zoom_factor
       /\ zoom_state = "zooming_in" => zoom_factor' >= zoom_factor
       /\ zoom_state = "zooming_out" => zoom_factor' <= zoom_factor]_vars

\* A zoom out that started at max_zoom, under way, every call so far having
\* lowered the factor by the step.
C28_Witness ==
    /\ zoom_state = "zooming_out"
    /\ zoom_duration < ZoomDurMin
    /\ zoom_step < 0
    /\ zoom_factor = max_zoom + (ZoomDurMax - zoom_duration) * zoom_step

\* C24: no animation state is carried from one video of a batch to the next:
\* the oscillator is 0 at the start of each video's frame pass, whatever
\* number of frames the videos before it had.
C24_OscillatorReset ==
    (pc = "frames" /\ frame_count = 0) => animation_oscillator = 0

\* The start of the second video's frame pass, the first video processed to
\* its end with a number of frames that is no multiple of the cycle.
C24_Witness ==
    /\ pc = "frames"
    /\ frame_count = 0
    /\ video_index = 2
    /\ "Successfully processed video" \in log[1]
    /\ videos[1].frames %
           (IF animation_style = "bounce" THEN BounceCycle(videos[1].fps)
            ELSE ScaleCycle(videos[1].fps)) # 0
    /\ animation_oscillator = 0

\* The frame time t falls on a caption of the current video that has a
\* current word and wraps to more than three lines.
LongCaptionAt(t) ==
    LET active == GetActiveSubtitle(subtitles, t)
    IN  /\ active # 0
        /\ CurrentWord(subtitles[active].word_timings, t, 1) # ""
        /\ Len(HighlightWrap(SplitText(subtitles[active].text), 1, <<>>, <<>>,
                             0, videos[video_index].width - 100)) > 3

\* C25: in standard mode with a current word, rendering a caption whose words
\* wrap to more than three lines completes without raising: the caption is
\* drawn as three lines, an ellipsis appended to the last word of the third,
\* and the frame pass goes on with the next frame.
C25_LongCaptionDrawn ==
    highlight_style = "standard" =>
        /\ \A k \in 1 .. Len(calls) :
              (calls[k].op = "query" /\ LongCaptionAt(calls[k].t)) =>
                  CallsAt("render", calls[k].frame) # {}
        /\ (FrameDrawn /\ LongCaptionAt(current_time)) =>
              /\ rendered.call = "highlighted"
              /\ Len(rendered.words) = 3
              /\ LET last == rendered.words[3][Len(rendered.words[3])].word
                 IN  last = Strip(last) \o "..."

\* C26: when the subject is detected at the same point on every frame, the
\* smoothed crop position (last_crop_x, last_crop_y) eventually equals the
\* clamped target and stays there, whether the target lies above or below
\* the starting position.
C26_PositionConverges ==
    <>[](last_crop_x = target_x /\ last_crop_y = target_y)

\* C27: after every frame the smoothed position satisfies
\* 0 <= last_crop_x <= input_width - crop_width and
\* 0 <= last_crop_y <= input_height - crop_height, for any sequence of
\* detections, detections beyond the frame edges included.
C27_PositionInRange ==
    FrameProcessed =>
        /\ 0 <= last_crop_x
        /\ last_crop_x <= input_width - crop_width
        /\ 0 <= last_crop_y
        /\ last_crop_y <= input_height - crop_height

\* The subject detected beyond the left and top edges while a zoom runs, the
\* position brought down from the centre to the left edge.
C27_Witness ==
    /\ FrameProcessed
    /\ person_center = <<-1, -1>>
    /\ input_width > crop_width
    /\ last_crop_x = 0
    /\ zoom_state # "neutral"

\* C29: the rectangle apply_zoom_effect returns lies inside the un-zoomed
\* crop window [last_crop_x, last_crop_x + crop_width] x
\* [last_crop_y, last_crop_y + crop_height], so the bounds clamp process
\* applies after the zoom never changes crop_x or crop_y.
C29_ZoomInsideWindow ==
    FrameProcessed =>
        /\ last_crop_x <= zoomed.x
        /\ zoomed.x + zoomed.w <= last_crop_x + crop_width
        /\ last_crop_y <= zoomed.y
        /\ zoomed.y + zoomed.h <= last_crop_y + crop_height
        /\ crop.x = zoomed.x
        /\ crop.y = zoomed.y

\* A zoomed rectangle, smaller than the window, with the window against the
\* left edge of the source.
C29_Witness ==
    /\ FrameProcessed
    /\ zoom_factor > min_zoom
    /\ zoomed.w < crop_width
    /\ zoomed.h < crop_height
    /\ input_width > crop_width
    /\ last_crop_x = 0
    /\ target_x = 0
    /\ crop = zoomed

\* C30: every subtitle segment _refine_segments produces from a source
\* segment with start <= end has start <= end, the chunks of a segment split
\* because it has more than max_words_per_subtitle words and the segments of
\* zero duration included.
C30_RefinedOrdered ==
    pc = "refined" =>
        \A k \in 1 .. Len(refined_segments) :
            refined_segments[k].start <= refined_segments[k].end

=============================================================================
